---- MODULE Spec2Model ----
(***************************************************************************)
(* A model of retina's RTP reception core: StrictSequenceChecker::rtp and  *)
(* ::rtcp (src/client/rtp.rs), the Timeline they drive, and the G.723      *)
(* depacketizer (src/codec/g723.rs) fed by the packets rtp emits.          *)
(*                                                                         *)
(* RTP data is modelled as the byte sequence the transport hands to rtp.    *)
(* Sequence numbers keep their 16-bit width. A u32 (timestamp, SSRC) is    *)
(* the pair <<high 16 bits, low 16 bits>> and a logical timestamp (i64) is *)
(* the triple <<bits 32 and up, bits 16..31, bits 0..15>>, so that 32-bit  *)
(* wraparound is computed exactly.                                         *)
(***************************************************************************)
EXTENDS Integers, Sequences, FiniteSets, TLC

VARIABLES checker, timeline, opts, depacketizer, pc, inbox, hist, last

vars == <<checker, timeline, opts, depacketizer, pc, inbox, hist, last>>

(***************************************************************************)
(* Widths and bounds                                                       *)
(***************************************************************************)
\* Option::None, for a u16, a u32 and a logical timestamp.
None == -1

None32 == <<None, None>>

None64 == <<None, None, None>>

U8 == 256
U16 == 65536
\* u16::MAX
U16Max == 65535

\* The logical timestamp may pass the 32-bit range at most this many times
\* before the model stops feeding RTP packets.
MaxWraps == 2

\* The longest RTCP compound packet the model feeds to rtcp.
MaxCompound == 2

(***************************************************************************)
(* Byte helpers                                                            *)
(***************************************************************************)
\* u16::from_be_bytes([d[i], d[i+1]]), with i counted from 1.
U16At(d, i) == d[i] * U8 + d[i + 1]

\* A big-endian u32 read, as RtpReader::timestamp / ::ssrc do.
U32At(d, i) == <<U16At(d, i), U16At(d, i + 2)>>

BE16(x) == <<x \div U8, x % U8>>

BE32(x) == BE16(x[1]) \o BE16(x[2])

Zeros(n) == [i \in 1..n |-> 0]

\* u16::wrapping_sub
WrappingSub16(a, b) == (a - b + U16) % U16

\* Addition that does not wrap at 2^16.
CheckedAdd16(a, b) == a + b

\* u16::wrapping_add
WrappingAdd16(a, b) == (a + b) % U16

\* u32::wrapping_sub
WrappingSub32(a, b) ==
    LET lo == a[2] - b[2]
        borrow == IF lo < 0 THEN 1 ELSE 0
    IN  <<(a[1] - b[1] - borrow + 2 * U16) % U16, (lo + U16) % U16>>

\* a >= b for two u32
Geq32(a, b) == a[1] > b[1] \/ (a[1] = b[1] /\ a[2] >= b[2])

\* i64::from(t) for a u32
Ext64(t) == <<0, t[1], t[2]>>

\* l + d for a logical timestamp l and a u32 d
Add64(l, d) ==
    LET lo == l[3] + d[2]
        hi == l[2] + d[1] + lo \div U16
    IN  <<l[1] + hi \div U16, hi % U16, lo % U16>>

\* a <= b for two logical timestamps
Leq64(a, b) ==
    \/ a[1] < b[1]
    \/ a[1] = b[1] /\ a[2] < b[2]
    \/ a[1] = b[1] /\ a[2] = b[2] /\ a[3] <= b[3]

(***************************************************************************)
(* RTP wire format (RFC 3550 section 5.1), as the senders produce it       *)
(***************************************************************************)
\* One RTP packet: version 2, padding flag set iff pad > 0, extension flag
\* set iff ext >= 0 (ext is the extension's length in 32-bit words), cc
\* CSRCs, then the payload and pad bytes of padding whose last byte is pad.
MkRtp(ssrc, seq, ts, mark, cc, ext, pad, payload) ==
    <<128 + (IF pad > 0 THEN 32 ELSE 0) + (IF ext >= 0 THEN 16 ELSE 0) + cc,
      mark * 128 + 4>>
    \o BE16(seq) \o BE32(ts) \o BE32(ssrc)
    \o Zeros(4 * cc)
    \o (IF ext >= 0 THEN <<190, 222>> \o BE16(ext) \o Zeros(4 * ext) ELSE <<>>)
    \o payload
    \o (IF pad > 0 THEN Zeros(pad - 1) \o <<pad>> ELSE <<>>)

\* An RTSP interleaved-data header ('$', channel, big-endian length) put in
\* front of data.
Wrap(channel, len, data) == <<36, channel>> \o BE16(len) \o data

(***************************************************************************)
(* rtp_rs::RtpReader, the header parser rtp calls                          *)
(***************************************************************************)
RtpVersion(d) == d[1] \div 64

PaddingFlag(d) == (d[1] \div 32) % 2 = 1

ExtensionFlag(d) == (d[1] \div 16) % 2 = 1

CsrcEnd(d) == 12 + 4 * (d[1] % 16)

\* Only read once the four bytes of the extension header are known to exist.
ExtensionLen(d) == 4 * U16At(d, CsrcEnd(d) + 3)

PayloadOffset(d) == CsrcEnd(d) + (IF ExtensionFlag(d) THEN 4 + ExtensionLen(d) ELSE 0)

\* RtpReader::new(d) is Ok.
RtpReaderOk(d) ==
    /\ Len(d) >= 12
    /\ RtpVersion(d) = 2
    /\ ExtensionFlag(d) =>
          /\ CsrcEnd(d) + 4 <= Len(d)
          /\ CsrcEnd(d) + 4 + ExtensionLen(d) <= Len(d)
    /\ PayloadOffset(d) <= Len(d)
    /\ PaddingFlag(d) =>
          /\ Len(d) - PayloadOffset(d) > 0
          /\ d[Len(d)] > 0
          /\ PayloadOffset(d) + d[Len(d)] <= Len(d)

\* The padding is left on the payload.
ReaderPayloadKeepsPadding(d) == SubSeq(d, PayloadOffset(d) + 1, Len(d))

\* RtpReader::payload(): the bytes after the headers and before the padding.
ReaderPayload(d) ==
    SubSeq(d, PayloadOffset(d) + 1, Len(d) - (IF PaddingFlag(d) THEN d[Len(d)] ELSE 0))

ReaderMark(d) == d[2] \div 128 = 1

ReaderTimestamp(d) == U32At(d, 5)

ReaderSsrc(d) == U32At(d, 9)

(***************************************************************************)
(* Timeline: 32-bit RTP timestamps to 64-bit logical timestamps            *)
(***************************************************************************)
\* The largest forward jump a policing timeline lets through.
MaxForwardJump == <<32768, 0>>

\* (t - last) mod 2^32, the unsigned wraparound distance.
WrapDelta(tl, t) == WrappingSub32(t, tl.last)

\* The sanity failure of a timeline that polices jumps.
JumpRejected(tl, t) ==
    /\ tl.last # None32
    /\ tl.max_forward_jump # None32
    /\ Geq32(WrapDelta(tl, t), tl.max_forward_jump)

\* The logical timestamp of the 32-bit timestamp t.
LogicalOf(tl, t) == IF tl.last = None32 THEN Ext64(t) ELSE Add64(tl.ts, WrapDelta(tl, t))

\* Timeline::place: the logical timestamp of t; the timeline is not changed.
Place(tl, t) ==
    IF JumpRejected(tl, t)
    THEN [ok |-> FALSE, ts |-> None64, description |-> "timestamp jump"]
    ELSE [ok |-> TRUE, ts |-> LogicalOf(tl, t), description |-> ""]

\* Timeline::advance_to: latches on the first call, else adds the wraparound
\* distance to the accumulator; on an error the timeline stays as it was.
AdvanceTo(tl, t) ==
    IF JumpRejected(tl, t)
    THEN [ok |-> FALSE, ts |-> None64, description |-> "timestamp jump", timeline |-> tl]
    ELSE [ok |-> TRUE, ts |-> LogicalOf(tl, t), description |-> "",
          timeline |-> [tl EXCEPT !.last = t, !.ts = LogicalOf(tl, t)]]

(***************************************************************************)
(* StrictSequenceChecker::rtp                                              *)
(***************************************************************************)
NoPacket ==
    [ctx |-> None, channel_id |-> None, stream_id |-> None, timestamp |-> None64,
     ssrc |-> None32, sequence_number |-> None, loss |-> None, mark |-> FALSE,
     payload |-> <<>>]

NoSenderReport ==
    [stream_id |-> None, ctx |-> None, timestamp |-> None64, ntp_timestamp |-> <<>>]

\* Ok(None)
OkNone == [kind |-> "none", error |-> "", description |-> "", pkt |-> NoPacket, sr |-> NoSenderReport]

\* Ok(Some(PacketItem::RtpPacket(p)))
OkPacket(p) == [kind |-> "packet", error |-> "", description |-> "", pkt |-> p, sr |-> NoSenderReport]

\* Ok(Some(PacketItem::SenderReport(r)))
OkSenderReport(r) == [kind |-> "sr", error |-> "", description |-> "", pkt |-> NoPacket, sr |-> r]

\* Err(..)
Err(e, description) ==
    [kind |-> "err", error |-> e, description |-> description, pkt |-> NoPacket, sr |-> NoSenderReport]

\* The length field of the extra header is not looked at.
SanitizeAnyLength(data) ==
    IF Len(data) > 4 /\ data[1] = 36
    THEN SubSeq(data, 5, Len(data))
    ELSE data

\* The framing hack at the head of rtp: drop an extra interleaved header.
Sanitize(data) ==
    IF Len(data) > 4 /\ data[1] = 36 /\ U16At(data, 3) <= Len(data) - 4
    THEN SubSeq(data, 5, Len(data))
    ELSE data

\* saturating_sub in place of wrapping_sub.
LossSaturating(self, sequence_number) ==
    IF self.next_seq = None \/ sequence_number < self.next_seq
    THEN 0
    ELSE sequence_number - self.next_seq

\* sequence_number.wrapping_sub(self.next_seq.unwrap_or(sequence_number))
Loss(self, sequence_number) ==
    WrappingSub16(sequence_number,
                  IF self.next_seq = None THEN sequence_number ELSE self.next_seq)

\* The SSRC check left out: no SSRC is ever taken for another one.
SsrcNeverMismatch(self, ssrc) == FALSE

\* matches!(self.ssrc, Some(s) if s != ssrc)
SsrcMismatch(self, ssrc) == self.ssrc # None32 /\ self.ssrc # ssrc

\* The sequence-gap check left out.
LossNeverTooLarge(loss) == FALSE

\* loss > 0x80_00
LossTooLarge(loss) == loss > 32768

\* The packet's own 32-bit timestamp, not passed through the timeline.
PacketTimestampRaw(adv, data) == Ext64(ReaderTimestamp(data))

\* Ok(ts) => ts: the packet's timestamp is what advance_to returned.
PacketTimestamp(adv, data) == adv.ts

\* next_seq is set before advance_to is asked.
RtpAcceptCountsFirst(self, tl, ctx, stream, data, ssrc, sequence_number, loss) ==
    LET adv == AdvanceTo(tl, ReaderTimestamp(data))
        counted == [self EXCEPT !.next_seq = WrappingAdd16(sequence_number, 1)]
        payload == ReaderPayload(data)
    IN  IF ~adv.ok
        THEN [checker |-> counted, timeline |-> tl,
              result |-> Err("RtpPacketError", adv.description)]
        ELSE IF payload = <<>>
        THEN [checker |-> [self EXCEPT !.ssrc = ssrc], timeline |-> adv.timeline,
              result |-> Err("RtpPacketError", "empty payload")]
        ELSE [checker |-> [counted EXCEPT !.ssrc = ssrc],
              timeline |-> adv.timeline,
              result |-> OkPacket([ctx |-> ctx,
                                   channel_id |-> stream.channel_id,
                                   stream_id |-> stream.stream_id,
                                   timestamp |-> PacketTimestamp(adv, data),
                                   ssrc |-> ssrc,
                                   sequence_number |-> sequence_number,
                                   loss |-> loss,
                                   mark |-> ReaderMark(data),
                                   payload |-> payload])]

\* What rtp does to a packet that passed the SSRC and the sequence checks.
RtpAccept(self, tl, ctx, stream, data, ssrc, sequence_number, loss) ==
    LET adv == AdvanceTo(tl, ReaderTimestamp(data))
        latched == [self EXCEPT !.ssrc = ssrc]
        payload == ReaderPayload(data)
    IN  IF ~adv.ok
        THEN [checker |-> self, timeline |-> tl,
              result |-> Err("RtpPacketError", adv.description)]
        ELSE IF payload = <<>>
        THEN [checker |-> latched, timeline |-> adv.timeline,
              result |-> Err("RtpPacketError", "empty payload")]
        ELSE [checker |-> [latched EXCEPT !.next_seq = WrappingAdd16(sequence_number, 1)],
              timeline |-> adv.timeline,
              result |-> OkPacket([ctx |-> ctx,
                                   channel_id |-> stream.channel_id,
                                   stream_id |-> stream.stream_id,
                                   timestamp |-> PacketTimestamp(adv, data),
                                   ssrc |-> ssrc,
                                   sequence_number |-> sequence_number,
                                   loss |-> loss,
                                   mark |-> ReaderMark(data),
                                   payload |-> payload])]

\* ignore_spurious_data not consulted: the wrong SSRC is always an error.
SpuriousAlwaysError(options) == Err("RtpPacketError", "Wrong ssrc")

\* What rtp returns for a packet with the wrong SSRC.
SpuriousResult(options) ==
    IF options.ignore_spurious_data
    THEN OkNone
    ELSE Err("RtpPacketError", "Wrong ssrc")

\* The two checks in the other order: the sequence gap first.
RtpCheckGapFirst(self, tl, options, ctx, stream, data) ==
    LET sequence_number == U16At(data, 3)
        ssrc == ReaderSsrc(data)
        loss == Loss(self, sequence_number)
        same == [checker |-> self, timeline |-> tl]
    IN  IF LossTooLarge(loss)
        THEN same @@ [result |-> Err("RtpPacketError", "Out-of-order packet or large loss")]
        ELSE IF SsrcMismatch(self, ssrc)
        THEN same @@ [result |-> SpuriousResult(options)]
        ELSE RtpAccept(self, tl, ctx, stream, data, ssrc, sequence_number, loss)

\* The SSRC check and the sequence-gap check of rtp, in the code's order.
RtpCheck(self, tl, options, ctx, stream, data) ==
    LET sequence_number == U16At(data, 3)
        ssrc == ReaderSsrc(data)
        loss == Loss(self, sequence_number)
        same == [checker |-> self, timeline |-> tl]
    IN  IF SsrcMismatch(self, ssrc)
        THEN same @@ [result |-> SpuriousResult(options)]
        ELSE IF LossTooLarge(loss)
        THEN same @@ [result |-> Err("RtpPacketError", "Out-of-order packet or large loss")]
        ELSE RtpAccept(self, tl, ctx, stream, data, ssrc, sequence_number, loss)

\* StrictSequenceChecker::rtp: the new checker, the new timeline, the result.
Rtp(self, tl, options, ctx, stream, data0) ==
    LET data == Sanitize(data0)
    IN  IF ~RtpReaderOk(data)
        THEN [checker |-> self, timeline |-> tl,
              result |-> Err("RtspDataMessageError", "corrupt RTP header")]
        ELSE RtpCheck(self, tl, options, ctx, stream, data)

(***************************************************************************)
(* StrictSequenceChecker::rtcp                                             *)
(***************************************************************************)
\* Compound RTCP data is a sequence of encoded packets, each a sender
\* report, a packet of another type, or bytes that do not parse.
SrPkt(ssrc, rtp_timestamp, ntp_timestamp) ==
    [type |-> "SenderReport", ssrc |-> ssrc, rtp_timestamp |-> rtp_timestamp,
     ntp_timestamp |-> ntp_timestamp]

UnknownPkt ==
    [type |-> "Unknown", ssrc |-> None32, rtp_timestamp |-> None32, ntp_timestamp |-> <<>>]

CorruptPkt ==
    [type |-> "Corrupt", ssrc |-> None32, rtp_timestamp |-> None32, ntp_timestamp |-> <<>>]

\* crate::rtcp::Packet::parse: the first packet and the rest, or an error.
RtcpParse(data) ==
    IF Head(data).type = "Corrupt"
    THEN [ok |-> FALSE, pkt |-> Head(data), rest |-> <<>>]
    ELSE [ok |-> TRUE, pkt |-> Head(data), rest |-> Tail(data)]

\* One packet is let through before a sender report.
SrNotFirstLoose(i) == i > 1

\* if i > 0 { return Err("RTCP SR must be first in packet") }
SrNotFirst(i) == i > 0

\* advance_to called where place belongs.
RtcpTimelineAdvance(tl, rtp_timestamp) == AdvanceTo(tl, rtp_timestamp)

\* The timeline call of the SenderReport arm: the result and the timeline after.
RtcpTimeline(tl, rtp_timestamp) == Place(tl, rtp_timestamp) @@ [timeline |-> tl]

\* The SenderReport arm without self.ssrc = Some(ssrc).
RtcpSenderReportNoLatch(self, tl, options, ctx, stream, pkt, i) ==
    IF SrNotFirst(i)
    THEN [done |-> TRUE, checker |-> self, timeline |-> tl, sr |-> NoSenderReport,
          result |-> Err("String", "RTCP SR must be first in packet")]
    ELSE LET placed == RtcpTimeline(tl, pkt.rtp_timestamp)
         IN  IF ~placed.ok
             THEN [done |-> TRUE, checker |-> self, timeline |-> placed.timeline,
                   sr |-> NoSenderReport,
                   result |-> Err("String", "timestamp jump in RTCP SR")]
             ELSE IF SsrcMismatch(self, pkt.ssrc)
             THEN [done |-> TRUE, checker |-> self, timeline |-> placed.timeline,
                   sr |-> NoSenderReport,
                   result |-> IF options.ignore_spurious_data
                              THEN OkNone
                              ELSE Err("String", "Expected ssrc, got RTCP SR ssrc")]
             ELSE [done |-> FALSE,
                   checker |-> self,
                   timeline |-> placed.timeline,
                   sr |-> [stream_id |-> stream.stream_id, ctx |-> ctx,
                           timestamp |-> placed.ts,
                           ntp_timestamp |-> pkt.ntp_timestamp],
                   result |-> OkNone]

\* The SenderReport arm of rtcp's loop: the checker and timeline after it,
\* and either the report it stores in sr (done = FALSE) or the value rtcp
\* returns at once (done = TRUE).
RtcpSenderReport(self, tl, options, ctx, stream, pkt, i) ==
    IF SrNotFirst(i)
    THEN [done |-> TRUE, checker |-> self, timeline |-> tl, sr |-> NoSenderReport,
          result |-> Err("String", "RTCP SR must be first in packet")]
    ELSE LET placed == RtcpTimeline(tl, pkt.rtp_timestamp)
         IN  IF ~placed.ok
             THEN [done |-> TRUE, checker |-> self, timeline |-> placed.timeline,
                   sr |-> NoSenderReport,
                   result |-> Err("String", "timestamp jump in RTCP SR")]
             ELSE IF SsrcMismatch(self, pkt.ssrc)
             THEN [done |-> TRUE, checker |-> self, timeline |-> placed.timeline,
                   sr |-> NoSenderReport,
                   result |-> IF options.ignore_spurious_data
                              THEN OkNone
                              ELSE Err("String", "Expected ssrc, got RTCP SR ssrc")]
             ELSE [done |-> FALSE,
                   checker |-> [self EXCEPT !.ssrc = pkt.ssrc],
                   timeline |-> placed.timeline,
                   sr |-> [stream_id |-> stream.stream_id, ctx |-> ctx,
                           timestamp |-> placed.ts,
                           ntp_timestamp |-> pkt.ntp_timestamp],
                   result |-> OkNone]

\* The Unknown arm forgets the sender report seen before it.
UnknownArmClears(sr) == NoSenderReport

\* The Unknown arm of rtcp's loop logs the packet type; sr stays as it is.
UnknownArm(sr) == sr

\* Ok(sr.map(PacketItem::SenderReport))
RtcpReturn(sr) == IF sr = NoSenderReport THEN OkNone ELSE OkSenderReport(sr)

RECURSIVE RtcpLoop(_, _, _, _, _, _, _, _)
\* while !data.is_empty() { .. i += 1 } with the locals sr and i.
RtcpLoop(self, tl, options, ctx, stream, data, i, sr) ==
    IF data = <<>>
    THEN [checker |-> self, timeline |-> tl, result |-> RtcpReturn(sr)]
    ELSE LET parsed == RtcpParse(data)
         IN  IF ~parsed.ok
             THEN [checker |-> self, timeline |-> tl,
                   result |-> Err("String", "corrupt RTCP packet")]
             ELSE IF parsed.pkt.type = "SenderReport"
             THEN LET arm == RtcpSenderReport(self, tl, options, ctx, stream, parsed.pkt, i)
                  IN  IF arm.done
                      THEN [checker |-> arm.checker, timeline |-> arm.timeline,
                            result |-> arm.result]
                      ELSE RtcpLoop(arm.checker, arm.timeline, options, ctx, stream,
                                    parsed.rest, i + 1, arm.sr)
             ELSE RtcpLoop(self, tl, options, ctx, stream, parsed.rest, i + 1,
                           UnknownArm(sr))

\* rtcp forgets the expected sequence number.
RtcpForgetsSeq(self, tl, options, ctx, stream, data) ==
    RtcpLoop([self EXCEPT !.next_seq = None], tl, options, ctx, stream, data, 0,
             NoSenderReport)

\* StrictSequenceChecker::rtcp: the new checker, the new timeline, the result.
Rtcp(self, tl, options, ctx, stream, data) ==
    RtcpLoop(self, tl, options, ctx, stream, data, 0, NoSenderReport)

(***************************************************************************)
(* codec::g723::Depacketizer                                               *)
(***************************************************************************)
NoFrame ==
    [ctx |-> None, loss |-> None, stream_id |-> None, timestamp |-> None64,
     frame_length |-> None, data |-> <<>>]

\* NonZeroU32::new(240)
FrameLength == 240

\* const FIXED_CLOCK_RATE: u32 = 8_000
FIXED_CLOCK_RATE == 8000

\* The clock rate is not looked at.
G723NewAnyRate(clock_rate) ==
    [ok |-> TRUE, description |-> "", depacketizer |-> [pending |-> NoFrame]]

\* g723::Depacketizer::new
G723New(clock_rate) ==
    IF clock_rate # FIXED_CLOCK_RATE
    THEN [ok |-> FALSE,
          description |-> "Expected clock rate of " \o ToString(FIXED_CLOCK_RATE)
                          \o " for G.723, got " \o ToString(clock_rate),
          depacketizer |-> [pending |-> NoFrame]]
    ELSE [ok |-> TRUE, description |-> "", depacketizer |-> [pending |-> NoFrame]]

\* g723::Depacketizer::parameters: Some(Parameters::Audio(..))
G723Parameters(self) ==
    [kind |-> "Audio", rfc6381_codec |-> None, frame_length |-> FrameLength,
     clock_rate |-> FIXED_CLOCK_RATE, extra_data |-> <<>>, sample_entry |-> None]

\* The header bits of the first byte are not looked at.
ValidateLengthOnly(pkt) == Len(pkt.payload) \in {24, 20, 4}

\* Depacketizer::validate
Validate(pkt) ==
    LET n == Len(pkt.payload)
    IN  /\ n \in {24, 20, 4}
        /\ pkt.payload[1] % 4 = (CASE n = 24 -> 0 [] n = 20 -> 1 [] n = 4 -> 2)

\* The frame's loss is left at 0.
FrameWithoutLoss(pkt) ==
    [ctx |-> pkt.ctx, loss |-> 0, stream_id |-> pkt.stream_id,
     timestamp |-> pkt.timestamp, frame_length |-> FrameLength, data |-> pkt.payload]

\* The frame push stores for a valid packet.
FrameOf(pkt) ==
    [ctx |-> pkt.ctx, loss |-> pkt.loss, stream_id |-> pkt.stream_id,
     timestamp |-> pkt.timestamp, frame_length |-> FrameLength, data |-> pkt.payload]

\* The frame is stored before the packet is validated.
PushStoresFirst(self, pkt) ==
    IF self.pending # NoFrame
    THEN [depacketizer |-> self, result |-> "panic", description |-> ""]
    ELSE IF ~Validate(pkt)
    THEN [depacketizer |-> [self EXCEPT !.pending = FrameOf(pkt)], result |-> "err",
          description |-> "Invalid G.723 packet"]
    ELSE [depacketizer |-> [self EXCEPT !.pending = FrameOf(pkt)], result |-> "ok",
          description |-> ""]

\* Depacketizer::push: the depacketizer after it and Ok, Err or the panic of
\* assert!(self.pending.is_none()).
Push(self, pkt) ==
    IF self.pending # NoFrame
    THEN [depacketizer |-> self, result |-> "panic", description |-> ""]
    ELSE IF ~Validate(pkt)
    THEN [depacketizer |-> self, result |-> "err", description |-> "Invalid G.723 packet"]
    ELSE [depacketizer |-> [self EXCEPT !.pending = FrameOf(pkt)], result |-> "ok",
          description |-> ""]

\* self.pending.clone(): the frame is handed out and kept.
PullKeeps(self) == [depacketizer |-> self, item |-> self.pending]

\* Depacketizer::pull: self.pending.take()
Pull(self) == [depacketizer |-> [self EXCEPT !.pending = NoFrame], item |-> self.pending]

(***************************************************************************)
(* codec::Depacketizer, the dispatcher over the codecs                     *)
(***************************************************************************)
\* No depacketizer has been constructed.
NoDepacketizer == [variant |-> "none", inner |-> <<>>]

\* h264::Depacketizer::new and aac::Depacketizer::new parse the format
\* specific parameters of the SDP and fail on parameters they do not accept.
CodecNew(clock_rate, channels, format_specific_params) ==
    IF format_specific_params = "bad"
    THEN [ok |-> FALSE, description |-> "bad format-specific-params",
          depacketizer |-> <<>>]
    ELSE [ok |-> TRUE, description |-> "",
          depacketizer |-> [clock_rate |-> clock_rate, channels |-> channels,
                            format_specific_params |-> format_specific_params]]

\* The media is not compared.
MatchesEncodingOnly(media, encoding_name, m, e) == encoding_name = e

\* A match arm (m, e) of Depacketizer::new: both strings are equal.
Matches(media, encoding_name, m, e) == media = m /\ encoding_name = e

\* Depacketizer::new
DepacketizerNew(media, encoding_name, clock_rate, channels, format_specific_params) ==
    LET is(m, e) == Matches(media, encoding_name, m, e)
        made(variant, inner) ==
            [ok |-> TRUE, description |-> "",
             depacketizer |-> [variant |-> variant, inner |-> inner]]
        tried(variant, r) ==
            IF r.ok THEN made(variant, r.depacketizer)
            ELSE [ok |-> FALSE, description |-> r.description,
                  depacketizer |-> NoDepacketizer]
        simple(bits) ==
            made("SimpleAudio", [clock_rate |-> clock_rate, bits_per_sample |-> bits])
        onvif(compression_type) ==
            made("Onvif", [compression_type |-> compression_type])
    IN  CASE is("video", "h264") ->
               tried("H264", CodecNew(clock_rate, None, format_specific_params))
          [] is("audio", "mpeg4-generic") ->
               tried("Aac", CodecNew(clock_rate, channels, format_specific_params))
          [] is("audio", "g726-16") -> simple(2)
          [] is("audio", "g726-24") -> simple(3)
          [] is("audio", "dvi4") \/ is("audio", "g726-32") -> simple(4)
          [] is("audio", "g726-40") -> simple(5)
          [] is("audio", "pcma") \/ is("audio", "pcmu") \/ is("audio", "u8")
             \/ is("audio", "g722") -> simple(8)
          [] is("audio", "l16") -> simple(16)
          [] is("audio", "g723") -> tried("G723", G723New(clock_rate))
          [] is("application", "vnd.onvif.metadata") -> onvif("Uncompressed")
          [] is("application", "vnd.onvif.metadata.gzip") -> onvif("GzipCompressed")
          [] is("application", "vnd.onvif.metadata.exi.onvif") -> onvif("ExiDefault")
          [] is("application", "vnd.onvif.metadata.exi.ext") -> onvif("ExiInBand")
          [] OTHER ->
               [ok |-> FALSE,
                description |-> "no depacketizer for media/encoding_name "
                                \o media \o "/" \o encoding_name,
                depacketizer |-> NoDepacketizer]

\* Depacketizer::parameters, for the G.723 variant
DepacketizerParameters(self) ==
    CASE self.variant = "G723" -> G723Parameters(self.inner)

\* Depacketizer::push, for the G.723 variant
DepacketizerPush(self, input) ==
    CASE self.variant = "G723" ->
        LET r == Push(self.inner, input)
        IN  [depacketizer |-> [self EXCEPT !.inner = r.depacketizer],
             result |-> r.result, description |-> r.description]

\* Depacketizer::pull, for the G.723 variant
DepacketizerPull(self) ==
    CASE self.variant = "G723" ->
        LET r == Pull(self.inner)
        IN  [depacketizer |-> [self EXCEPT !.inner = r.depacketizer], item |-> r.item]

(***************************************************************************)
(* Inputs                                                                  *)
(***************************************************************************)
Ssrcs == {<<258, 772>>, <<65535, 65535>>}

\* Sequence numbers around the wrap (0xFFFE, 0xFFFF, 0, 1) and around half
\* the sequence space (0x8000, 0x8001, 0x8002).
SeqInputs == {0, 1, 32768, 32769, 32770, 65534, 65535}

\* RTP timestamps: a small step, a step of half the 32-bit range and the
\* last value before the wrap.
TsInputs == {<<0, 0>>, <<0, 1000>>, <<32768, 0>>, <<65535, 65535>>}

\* The session's setups: whether spurious data is ignored, whether the
\* timeline polices jumps, and the stream the checker belongs to.
Setups ==
    {[ignore_spurious_data |-> FALSE, max_forward_jump |-> None32, channel_id |-> 0, stream_id |-> 0],
     [ignore_spurious_data |-> TRUE, max_forward_jump |-> None32, channel_id |-> 2, stream_id |-> 1],
     [ignore_spurious_data |-> FALSE, max_forward_jump |-> MaxForwardJump, channel_id |-> 2, stream_id |-> 1],
     [ignore_spurious_data |-> TRUE, max_forward_jump |-> MaxForwardJump, channel_id |-> 0, stream_id |-> 0]}

\* The message context of a data message: where it was read in the stream.
CtxOf(data) == 100 + Len(data)

\* G.723 payloads: valid 4-, 20- and 24-byte frames and a 4-byte frame with
\* the header bits of a 24-byte one.
G4 == <<2, 0, 0, 0>>

G20 == <<1>> \o Zeros(19)

G24 == Zeros(24)

BadG4 == <<0, 0, 0, 0>>

\* Well-formed packets with a 4-byte payload, over every SSRC, sequence
\* number and timestamp of the input sets.
PlainInputs ==
    {MkRtp(s, q, t, 0, 0, -1, 0, G4) : s \in Ssrcs, q \in SeqInputs, t \in TsInputs}

\* The other shapes of data for one SSRC: other payloads, the mark bit,
\* CSRCs, a header extension, padding, an empty payload, an extra
\* interleaved header, and headers RtpReader rejects.
Shapes(s) ==
    LET t == <<0, 1000>>
        q == 0
        plain == MkRtp(s, q, t, 1, 0, -1, 0, G24)
    IN  { plain,
          MkRtp(s, q, t, 0, 0, -1, 0, G20),
          MkRtp(s, q, t, 0, 0, -1, 0, BadG4),
          MkRtp(s, q, t, 0, 0, -1, 0, <<7>>),
          MkRtp(s, q, t, 0, 1, -1, 0, G4),
          MkRtp(s, q, t, 0, 0, 1, 0, G4),
          MkRtp(s, q, t, 0, 0, -1, 2, G4),
          MkRtp(s, q, t, 0, 0, -1, 0, <<>>),
          MkRtp(s, q, t, 0, 0, 0, 3, <<>>),
          Wrap(0, Len(plain), plain),
          Wrap(0, Len(plain) + 1, plain),
          Wrap(0, 0, Wrap(0, Len(plain), plain)),
          SubSeq(plain, 1, 11),
          [plain EXCEPT ![1] = 64],
          [MkRtp(s, q, t, 0, 0, 1, 0, G4) EXCEPT ![16] = 9],
          [MkRtp(s, q, t, 0, 0, -1, 2, G4) EXCEPT ![18] = 0] }

ShapeInputs == UNION {Shapes(s) : s \in Ssrcs}

\* Payloads around the three G.723 frame sizes: the header bits of another
\* size, header bits 0b11, high bits set in the first byte, and lengths next
\* to 4, 20 and 24.
OddPayloads ==
    { <<3>> \o Zeros(23), <<1>> \o Zeros(23), <<252>> \o Zeros(23),
      Zeros(20), <<2>> \o Zeros(19), <<253>> \o Zeros(19),
      <<6, 0, 0, 0>>, <<1, 0, 0, 0>>,
      Zeros(3), Zeros(5), Zeros(19), Zeros(21), Zeros(23), Zeros(25) }

PayloadInputs ==
    {MkRtp(<<258, 772>>, 0, <<0, 1000>>, 0, 0, -1, 0, p) : p \in OddPayloads}

\* Buffers too short to hold an RTP header behind an interleaved header.
ShortInputs == { <<36, 0, 0, 0>>, <<36, 0, 0, 1, 128>> }

RtpInputs == PlainInputs \cup ShapeInputs \cup ShortInputs \cup PayloadInputs

\* An NTP timestamp (u64), most significant 16 bits first.
NtpSample == <<58523, 4660, 32768, 1>>

RtcpPkts == {SrPkt(s, <<0, 0>>, NtpSample) : s \in Ssrcs} \cup {UnknownPkt, CorruptPkt}

RtcpInputs == UNION {[1..n -> RtcpPkts] : n \in 0..MaxCompound}

(***************************************************************************)
(* State                                                                   *)
(***************************************************************************)
\* The logical timestamps of the last packet and the last frame emitted.
NoHist == [pkt_ts |-> None64, frame_ts |-> None64]

\* No call has returned since the session last looked.
NoCall ==
    [op |-> "none", data |-> <<>>, ctx |-> None,
     checker |-> [ssrc |-> None32, next_seq |-> None],
     timeline |-> [last |-> None32, ts |-> None64, max_forward_jump |-> None32],
     depacketizer |-> [pending |-> NoFrame], hist |-> NoHist,
     result |-> OkNone, frame |-> NoFrame]

\* What the last call was, the state it started from and what it returned.
Record(op, data, ctx, result, frame) ==
    [op |-> op, data |-> data, ctx |-> ctx,
     checker |-> checker, timeline |-> timeline, depacketizer |-> depacketizer,
     hist |-> hist, result |-> result, frame |-> frame]

\* StrictSequenceChecker::new(ssrc, next_seq), a fresh Timeline, the session
\* options, and a G.723 depacketizer with nothing pending.
Init ==
    /\ opts \in Setups
    /\ checker \in [ssrc : {None32} \cup Ssrcs, next_seq : {None, 0, 32768}]
    /\ timeline = [last |-> None32, ts |-> Ext64(<<0, 0>>),
                   max_forward_jump |-> opts.max_forward_jump]
    /\ depacketizer = [pending |-> NoFrame]
    /\ pc = "recv"
    /\ inbox = NoPacket
    /\ hist = NoHist
    /\ last = NoCall

\* The session receives an RTP data message and hands it to rtp.
RtpStep ==
    /\ pc = "recv"
    /\ timeline.ts[1] < MaxWraps
    /\ \E data \in RtpInputs :
          LET r == Rtp(checker, timeline, opts, CtxOf(data), opts, data)
          IN  /\ checker' = r.checker
              /\ timeline' = r.timeline
              /\ hist' = IF r.result.kind = "packet"
                         THEN [hist EXCEPT !.pkt_ts = r.result.pkt.timestamp]
                         ELSE hist
              /\ last' = Record("rtp", data, CtxOf(data), r.result, NoFrame)
    /\ pc' = "returned"
    /\ UNCHANGED <<opts, depacketizer, inbox>>

\* The session receives an RTCP data message and hands it to rtcp.
RtcpStep ==
    /\ pc = "recv"
    /\ \E data \in RtcpInputs :
          LET r == Rtcp(checker, timeline, opts, CtxOf(data), opts, data)
          IN  /\ checker' = r.checker
              /\ timeline' = r.timeline
              /\ last' = Record("rtcp", data, CtxOf(data), r.result, NoFrame)
    /\ pc' = "returned"
    /\ UNCHANGED <<opts, depacketizer, inbox, hist>>

\* depacketizer.push(pkt) with the packet rtp emitted.
PushStep ==
    /\ pc = "push"
    /\ LET r == Push(depacketizer, inbox)
       IN  /\ depacketizer' = r.depacketizer
           /\ last' = Record("push", <<>>, inbox.ctx,
                             [OkNone EXCEPT !.kind = r.result, !.description = r.description,
                                            !.pkt = inbox], NoFrame)
    /\ pc' = "returned"
    /\ UNCHANGED <<checker, timeline, opts, inbox, hist>>

\* depacketizer.pull()
PullStep ==
    /\ pc = "pull"
    /\ LET r == Pull(depacketizer)
       IN  /\ depacketizer' = r.depacketizer
           /\ hist' = IF r.item = NoFrame THEN hist
                      ELSE [hist EXCEPT !.frame_ts = r.item.timestamp]
           /\ last' = Record("pull", <<>>, None,
                             [OkNone EXCEPT !.kind = IF r.item = NoFrame THEN "none" ELSE "frame"],
                             r.item)
    /\ pc' = "returned"
    /\ UNCHANGED <<checker, timeline, opts, inbox>>

\* The session looks at what the call returned: a packet from rtp is pushed
\* next, a successful push is followed by pull, pull is repeated until it
\* returns None, and anything else sends the session back to receiving.
\* inbox is the packet the session is working on, until it receives again.
SessionLoop ==
    /\ pc = "returned"
    /\ pc' = CASE last.op = "rtp" /\ last.result.kind = "packet" -> "push"
               [] last.op = "push" /\ last.result.kind = "ok" -> "pull"
               [] last.op = "pull" /\ last.result.kind = "frame" -> "pull"
               [] OTHER -> "recv"
    /\ inbox' = IF last.op = "rtp" THEN last.result.pkt
                ELSE IF pc' = "recv" THEN NoPacket
                ELSE inbox
    /\ last' = NoCall
    /\ UNCHANGED <<checker, timeline, opts, depacketizer, hist>>

Next == RtpStep \/ RtcpStep \/ PushStep \/ PullStep \/ SessionLoop

Spec == Init /\ [][Next]_vars

(***************************************************************************)
(* rtp handed buffers longer than an interleaved data message can be       *)
(***************************************************************************)
\* Well-formed packets whose payload is one byte short of u16::MAX bytes and
\* exactly u16::MAX bytes long.
LongInputs ==
    {MkRtp(s, 0, t, 0, 0, -1, 0, Zeros(n)) :
        s \in Ssrcs, t \in {<<0, 0>>, <<0, 1000>>}, n \in {U16Max - 1, U16Max}}

\* rtp is called with a long buffer.
RtpLongStep ==
    /\ pc = "recv"
    /\ \E data \in LongInputs :
          LET r == Rtp(checker, timeline, opts, CtxOf(data), opts, data)
          IN  /\ checker' = r.checker
              /\ timeline' = r.timeline
              /\ hist' = IF r.result.kind = "packet"
                         THEN [hist EXCEPT !.pkt_ts = r.result.pkt.timestamp]
                         ELSE hist
              /\ last' = Record("rtp", data, CtxOf(data), r.result, NoFrame)
    /\ pc' = "returned"
    /\ UNCHANGED <<opts, depacketizer, inbox>>

NextLong == RtpLongStep \/ PushStep \/ SessionLoop

SpecLong == Init /\ [][NextLong]_vars

(***************************************************************************)
(* Stream setup: a depacketizer is constructed from the stream's SDP, asked *)
(* for its parameters and fed packets                                       *)
(***************************************************************************)
Medias == {"audio", "video", "application", "text"}

\* Every encoding name Depacketizer::new knows, and names it does not know:
\* the Dahua "G723.1", upper case, a prefix, another codec, the empty name.
EncodingNames ==
    { "h264", "mpeg4-generic", "g726-16", "g726-24", "dvi4", "g726-32", "g726-40",
      "pcma", "pcmu", "u8", "g722", "l16", "g723",
      "vnd.onvif.metadata", "vnd.onvif.metadata.gzip",
      "vnd.onvif.metadata.exi.onvif", "vnd.onvif.metadata.exi.ext",
      "G723.1", "G723", "H264", "g726", "h265", "vnd.onvif.metadata.exi", "" }

ClockRates == {0, 7999, 8000, 8001, 16000, 90000}

FormatSpecificParams == {"good", "bad"}

\* Packets as rtp emits them, with G.723 payloads and a payload push rejects.
CodecPackets ==
    { [ctx |-> CtxOf(payload), channel_id |-> 0, stream_id |-> 0,
       timestamp |-> Ext64(<<0, 1000>>), ssrc |-> <<258, 772>>,
       sequence_number |-> 0, loss |-> loss, mark |-> FALSE, payload |-> payload]
      : payload \in {G4, G20, G24, BadG4}, loss \in {0, 1} }

\* What the last call at setup was, the depacketizer it started from and
\* what it returned.
SetupRecord(op, media, encoding_name, clock_rate, result, parameters) ==
    [op |-> op, media |-> media, encoding_name |-> encoding_name,
     clock_rate |-> clock_rate, depacketizer |-> depacketizer,
     hist |-> hist, result |-> result, parameters |-> parameters]

NoParameters == [kind |-> "none"]

InitSetup ==
    /\ opts = [ignore_spurious_data |-> FALSE, max_forward_jump |-> None32,
               channel_id |-> 0, stream_id |-> 0]
    /\ checker = [ssrc |-> None32, next_seq |-> None]
    /\ timeline = [last |-> None32, ts |-> Ext64(<<0, 0>>), max_forward_jump |-> None32]
    /\ depacketizer = NoDepacketizer
    /\ pc = "new"
    /\ inbox = NoPacket
    /\ hist = NoHist
    /\ last = NoCall

\* Depacketizer::new(media, encoding_name, clock_rate, channels,
\* format_specific_params) for a stream of the SDP.
NewStep ==
    /\ pc = "new"
    /\ \E media \in Medias, encoding_name \in EncodingNames, clock_rate \in ClockRates,
          format_specific_params \in FormatSpecificParams :
          LET r == DepacketizerNew(media, encoding_name, clock_rate, None,
                                   format_specific_params)
          IN  /\ depacketizer' = r.depacketizer
              /\ pc' = IF r.ok THEN "ready" ELSE "failed"
              /\ last' = SetupRecord("new", media, encoding_name, clock_rate,
                                     [OkNone EXCEPT !.kind = IF r.ok THEN "ok" ELSE "err",
                                                    !.description = r.description],
                                     NoParameters)
    /\ UNCHANGED <<checker, timeline, opts, inbox, hist>>

\* depacketizer.parameters(), at any time after construction.
ParametersStep ==
    /\ pc \in {"ready", "drain"}
    /\ depacketizer.variant = "G723"
    /\ last' = SetupRecord("parameters", "", "", None, OkNone,
                           DepacketizerParameters(depacketizer))
    /\ UNCHANGED <<checker, timeline, opts, depacketizer, pc, inbox, hist>>

\* depacketizer.push(pkt); after a successful push the caller pulls.
CodecPushStep ==
    /\ pc = "ready"
    /\ depacketizer.variant = "G723"
    /\ \E pkt \in CodecPackets :
          LET r == DepacketizerPush(depacketizer, pkt)
          IN  /\ depacketizer' = r.depacketizer
              /\ pc' = IF r.result = "ok" THEN "drain" ELSE "ready"
              /\ last' = SetupRecord("push", "", "", None,
                                     [OkNone EXCEPT !.kind = r.result,
                                                    !.description = r.description,
                                                    !.pkt = pkt],
                                     NoParameters)
    /\ UNCHANGED <<checker, timeline, opts, inbox, hist>>

\* depacketizer.pull(), repeated until it returns None.
CodecPullStep ==
    /\ pc = "drain"
    /\ LET r == DepacketizerPull(depacketizer)
       IN  /\ depacketizer' = r.depacketizer
           /\ pc' = IF r.item = NoFrame THEN "ready" ELSE "drain"
           /\ hist' = IF r.item = NoFrame THEN hist
                      ELSE [hist EXCEPT !.frame_ts = r.item.timestamp]
           /\ last' = SetupRecord("pull", "", "", None,
                                  [OkNone EXCEPT !.kind = IF r.item = NoFrame
                                                          THEN "none" ELSE "frame"],
                                  NoParameters)
    /\ UNCHANGED <<checker, timeline, opts, inbox>>

NextSetup == NewStep \/ ParametersStep \/ CodecPushStep \/ CodecPullStep

SpecSetup == InitSetup /\ [][NextSetup]_vars

(***************************************************************************)
(* What the last call was given                                            *)
(***************************************************************************)
RtpReturned == last.op = "rtp"

RtcpReturned == last.op = "rtcp"

\* The RTP data after the framing hack, and whether its header parsed.
LastData == Sanitize(last.data)

LastParsed == RtpReturned /\ RtpReaderOk(LastData)

LastSeq == U16At(LastData, 3)

LastSsrc == U32At(LastData, 9)

\* The checker had an SSRC and the packet's SSRC is another one.
LastSpurious == last.checker.ssrc # None32 /\ last.checker.ssrc # LastSsrc

\* (seq - next_seq) mod 2^16 against the checker's state before the call.
LastGap == (LastSeq - last.checker.next_seq + U16) % U16

Emitted == RtpReturned /\ last.result.kind = "packet"

OutOfOrder ==
    /\ last.result.kind = "err"
    /\ last.result.error = "RtpPacketError"
    /\ last.result.description = "Out-of-order packet or large loss"

WrongSsrc ==
    /\ last.result.kind = "err"
    /\ last.result.error = "RtpPacketError"
    /\ last.result.description = "Wrong ssrc"

(***************************************************************************)
(* Claims                                                                  *)
(***************************************************************************)
\* C1: with an expected sequence number and a matching SSRC, every packet
\* rtp accepts has (seq - next_seq) mod 2^16 <= 0x7FFF, and a packet with a
\* larger gap (0x8001 right after an accepted 0x0000) is rejected with the
\* out-of-order error.
C1_GapAtMostI16Max ==
    (LastParsed /\ last.checker.next_seq # None /\ last.checker.ssrc = LastSsrc) =>
        /\ Emitted => LastGap <= 32767
        /\ LastGap > 32767 => OutOfOrder

\* C2: when the SSRC check passes and (seq - next_seq) mod 2^16 > 0x8000, rtp
\* fails with RtpPacketError and emits nothing; a replay of the packet just
\* accepted (next_seq = seq + 1, same SSRC) is always rejected.
C2_LargeGapRejected ==
    (LastParsed /\ last.checker.next_seq # None /\ ~LastSpurious) =>
        /\ LastGap > 32768 => OutOfOrder /\ last.result.pkt = NoPacket
        /\ (last.checker.next_seq = (LastSeq + 1) % U16 /\ last.checker.ssrc = LastSsrc)
              => OutOfOrder

\* C2 witness: the packet with sequence number 0xFFFF, just accepted, arrives
\* again and is rejected.
C2_Witness ==
    /\ LastParsed
    /\ LastSeq = 65535
    /\ last.checker.next_seq = 0
    /\ last.checker.ssrc = LastSsrc
    /\ last.hist.pkt_ts # None64
    /\ OutOfOrder

\* C3: an emitted Packet's loss is (seq - n) mod 2^16 for the expected
\* sequence number n before the call and 0 when there was none; the
\* subtraction wraps, so 0x0000 after 0xFFFE (n = 0xFFFF) is not out of order
\* and has loss 1, and 0x0000 after 0xFFFF (n = 0) has loss 0.
C3_LossIsWrappingGap ==
    /\ Emitted =>
          /\ last.result.pkt.sequence_number = LastSeq
          /\ last.result.pkt.loss =
                IF last.checker.next_seq = None THEN 0 ELSE LastGap
    /\ (LastParsed /\ LastSeq = 0 /\ last.checker.next_seq \in {65535, 0}) => ~OutOfOrder
    /\ (Emitted /\ LastSeq = 0 /\ last.checker.next_seq = 65535) => last.result.pkt.loss = 1
    /\ (Emitted /\ LastSeq = 0 /\ last.checker.next_seq = 0) => last.result.pkt.loss = 0

\* C3 witness: sequence number 0x0000 is accepted when 0xFFFF was expected.
C3_Witness ==
    /\ Emitted
    /\ LastSeq = 0
    /\ last.checker.next_seq = 65535
    /\ last.result.pkt.loss = 1

C5_WrongSsrcError ==
    (LastParsed /\ LastSpurious /\ ~opts.ignore_spurious_data) =>
        WrongSsrc /\ last.result.pkt = NoPacket

\* C5 witness: the wrong SSRC and a sequence gap above 0x8000 at once.
C5_Witness ==
    /\ LastParsed /\ LastSpurious /\ ~opts.ignore_spurious_data
    /\ last.checker.next_seq # None /\ LastGap > 32768
    /\ WrongSsrc

\* C6: the logical timestamps of the Packets rtp emits never decrease from
\* one emitted Packet to the next, each being the value advance_to returned,
\* and the frames the depacketizer emits carry them in the same order.
C6_TimestampsNonDecreasing ==
    /\ Emitted =>
          /\ last.result.pkt.timestamp = timeline.ts
          /\ last.hist.pkt_ts # None64 => Leq64(last.hist.pkt_ts, last.result.pkt.timestamp)
    /\ (last.op = "pull" /\ last.result.kind = "frame") =>
          /\ last.frame.timestamp = hist.pkt_ts
          /\ last.hist.frame_ts # None64 => Leq64(last.hist.frame_ts, last.frame.timestamp)

\* C6 witness: a frame is pulled after an earlier one, its timestamp past
\* the 32-bit range.
C6_Witness ==
    /\ last.op = "pull" /\ last.result.kind = "frame"
    /\ last.hist.frame_ts # None64
    /\ last.hist.frame_ts # last.frame.timestamp
    /\ last.frame.timestamp[1] >= 1

\* The first packet of the RTCP data is a sender report.
LeadingSr == Len(last.data) >= 1 /\ last.data[1].type = "SenderReport"

\* C7: with ignore_spurious_data set, a sender report whose SSRC differs from
\* the latched SSRC is never an error: rtcp returns Ok(None) for it, whatever
\* RTP timestamp it carries.
C7_SpuriousSrNeverAnError ==
    (RtcpReturned /\ opts.ignore_spurious_data /\ LeadingSr
        /\ last.checker.ssrc # None32 /\ last.data[1].ssrc # last.checker.ssrc)
    => last.result = OkNone

\* C8: rtcp leaves the timeline as it was, and the SenderReport it returns
\* for a report with RTP timestamp T and NTP timestamp N has timestamp
\* place(T) and ntp_timestamp N.
C8_RtcpLeavesTimeline ==
    RtcpReturned =>
        /\ timeline = last.timeline
        /\ last.result.kind = "sr" =>
              /\ LeadingSr
              /\ last.result.sr.timestamp = Place(last.timeline, last.data[1].rtp_timestamp).ts
              /\ last.result.sr.ntp_timestamp = last.data[1].ntp_timestamp

\* C8 witness: a sender report is returned while the timeline stands at
\* another RTP timestamp than the report's.
C8_Witness ==
    /\ RtcpReturned /\ last.result.kind = "sr"
    /\ last.timeline.last # None32
    /\ last.timeline.last # last.data[1].rtp_timestamp
    /\ last.result.sr.ntp_timestamp = NtpSample

\* C9: only sender reports yield an item. A compound of unknown packets only
\* returns Ok(None) and leaves the checker as it was, and unknown packets
\* after a leading sender report that place and the SSRC check accept do not
\* keep that report from being returned.
C9_OnlySenderReportsYieldItems ==
    RtcpReturned =>
        /\ (\A i \in 1..Len(last.data) : last.data[i].type = "Unknown")
              => last.result = OkNone /\ checker = last.checker
        /\ last.result.kind \in {"none", "sr", "err"}
        /\ last.result.kind = "sr" => LeadingSr
        /\ (/\ Len(last.data) >= 2 /\ LeadingSr
            /\ \A i \in 2..Len(last.data) : last.data[i].type = "Unknown"
            /\ Place(last.timeline, last.data[1].rtp_timestamp).ok
            /\ last.checker.ssrc \in {None32, last.data[1].ssrc})
              => /\ last.result.kind = "sr"
                 /\ last.result.sr.ntp_timestamp = last.data[1].ntp_timestamp

\* C9 witness: a sender report followed by an unknown packet is returned.
C9_Witness ==
    /\ RtcpReturned /\ Len(last.data) = 2 /\ LeadingSr
    /\ last.data[2].type = "Unknown"
    /\ last.result.kind = "sr"

SrMustBeFirst ==
    last.result.kind = "err" /\ last.result.description = "RTCP SR must be first in packet"

\* The positions after the first at which the RTCP data holds a sender report.
LaterSrs == {i \in 2..Len(last.data) : last.data[i].type = "SenderReport"}

\* C10 as stated: rtcp fails with "RTCP SR must be first in packet" whenever a
\* sender report comes after one or more other RTCP packets, and never when
\* the only sender report is the first packet.
C10_SrAfterOtherAlwaysFails ==
    (RtcpReturned /\ \A i \in 1..Len(last.data) : last.data[i].type # "Corrupt") =>
        /\ LaterSrs # {} => SrMustBeFirst
        /\ LaterSrs = {} => ~SrMustBeFirst

\* The loop of rtcp gets as far as a later sender report: every packet before
\* it parses, and a leading sender report passes place and the SSRC check.
ReachesLaterSr ==
    /\ LaterSrs # {}
    /\ \A j \in 1..Len(last.data) :
          (\A i \in LaterSrs : j < i) => last.data[j].type # "Corrupt"
    /\ LeadingSr =>
          /\ Place(last.timeline, last.data[1].rtp_timestamp).ok
          /\ last.checker.ssrc \in {None32, last.data[1].ssrc}

\* C10 amended: rtcp fails with "RTCP SR must be first in packet" whenever its
\* loop reaches a sender report that comes after one or more other RTCP
\* packets, and never when the only sender report is the first packet.
C10_SrAfterOtherFailsWhenReached ==
    RtcpReturned =>
        /\ ReachesLaterSr => SrMustBeFirst
        /\ LaterSrs = {} => ~SrMustBeFirst

\* C10 witness: a second sender report after an accepted first one.
C10_Witness ==
    /\ RtcpReturned /\ Len(last.data) = 2 /\ LeadingSr
    /\ last.data[2].type = "SenderReport"
    /\ SrMustBeFirst

\* The buffer is longer than 4 bytes, begins with '$' and its bytes 2..4,
\* read as a big-endian u16, are at most its length less 4.
StripCond(d) == Len(d) > 4 /\ d[1] = 36 /\ d[3] * 256 + d[4] <= Len(d) - 4

\* The buffer without its first four bytes.
Inner(d) == SubSeq(d, 5, Len(d))

\* What the last rtp call did: the checker and timeline after it, its result.
LastOutcome == [checker |-> checker, timeline |-> timeline, result |-> last.result]

\* The same call on the bytes d, parsed as they are.
ParsedUnmodified(d) ==
    IF ~RtpReaderOk(d)
    THEN [checker |-> last.checker, timeline |-> last.timeline,
          result |-> Err("RtspDataMessageError", "corrupt RTP header")]
    ELSE RtpCheck(last.checker, last.timeline, opts, last.ctx, opts, d)

\* C11: rtp strips the first four bytes, once, exactly when the buffer is
\* longer than 4, begins with 0x24 and bytes 2..4 as a big-endian u16 are at
\* most len - 4, and parses the buffer unmodified otherwise; a double-wrapped
\* packet has the result and the state change of the inner packet, and a
\* buffer whose first octet has RTP version 2 is never stripped.
C11_StripsExtraHeaderOnce ==
    RtpReturned =>
        /\ LastOutcome = ParsedUnmodified(IF StripCond(last.data)
                                          THEN Inner(last.data)
                                          ELSE last.data)
        /\ (StripCond(last.data) /\ ~StripCond(Inner(last.data))) =>
              LastOutcome = Rtp(last.checker, last.timeline, opts, last.ctx, opts,
                                Inner(last.data))
        /\ RtpVersion(last.data) = 2 => LastOutcome = ParsedUnmodified(last.data)

\* C11 witness: a packet behind an extra interleaved header is emitted.
C11_Witness ==
    /\ RtpReturned /\ StripCond(last.data)
    /\ Emitted
    /\ last.result.pkt.payload = G24

\* The checker is as StrictSequenceChecker::new(None, None) makes it.
LastUnlatched == last.checker = [ssrc |-> None32, next_seq |-> None]

\* Timeline::advance_to on the last packet's timestamp, from the timeline
\* the call started with.
LastAdvance == AdvanceTo(last.timeline, ReaderTimestamp(LastData))

\* C12: a checker with no SSRC and no expected sequence number accepts a
\* well-formed packet with a non-empty payload whatever its SSRC and sequence
\* number are, given that the Timeline accepts its timestamp; after every
\* accepted packet ssrc = Some(the packet's SSRC) and
\* next_seq = Some((seq + 1) mod 2^16).
C12_FirstPacketLatches ==
    /\ (LastParsed /\ LastUnlatched /\ ReaderPayload(LastData) # <<>> /\ LastAdvance.ok)
          => Emitted
    /\ Emitted =>
          /\ checker.ssrc = LastSsrc
          /\ checker.ssrc = last.result.pkt.ssrc
          /\ checker.next_seq = (LastSeq + 1) % U16
          /\ checker.next_seq = (last.result.pkt.sequence_number + 1) % U16

\* C12 witness: the first packet of an unlatched checker has sequence number
\* 0xFFFF and SSRC 0xFFFFFFFF; it is accepted and next_seq wraps to 0.
C12_Witness ==
    /\ Emitted /\ LastUnlatched
    /\ LastSeq = 65535
    /\ checker = [ssrc |-> <<65535, 65535>>, next_seq |-> 0]

PushReturned == last.op = "push"

PullReturned == last.op = "pull"

\* C13: with a caller that pulls after every push until pull returns none,
\* every push finds the pending slot empty (the assertion never fails), a
\* frame is pending only between its push and the pull that returns it, and
\* that pull removes it so that no later pull returns it again.
C13_PushFindsSlotEmpty ==
    /\ pc = "push" => depacketizer.pending = NoFrame
    /\ PushReturned =>
          /\ last.depacketizer.pending = NoFrame
          /\ last.result.kind # "panic"
    /\ depacketizer.pending # NoFrame =>
          \/ pc = "pull"
          \/ pc = "returned" /\ PushReturned /\ last.result.kind = "ok"
    /\ (PullReturned /\ last.result.kind = "frame") =>
          /\ last.frame = last.depacketizer.pending
          /\ depacketizer.pending = NoFrame
    /\ (PullReturned /\ last.result.kind = "none") =>
          /\ last.depacketizer.pending = NoFrame
          /\ last.frame = NoFrame

\* C13 witness: a push succeeds after the frame of an earlier push has been
\* pulled.
C13_Witness ==
    /\ PushReturned /\ last.result.kind = "ok"
    /\ last.hist.frame_ts # None64
    /\ depacketizer.pending = FrameOf(last.result.pkt)

\* C14: one valid packet gives exactly one AudioFrame. The first pull after
\* a successful push returns a frame with frame_length 240, the packet's
\* payload as data and the packet's loss, timestamp, stream_id and ctx; the
\* pull after it returns none. The loss is the packet's own.
C14_OneFramePerPacket ==
    /\ (PushReturned /\ last.result.kind = "ok") =>
          /\ last.result.pkt = inbox
          /\ depacketizer.pending # NoFrame
    /\ (PullReturned /\ last.depacketizer.pending # NoFrame) =>
          /\ last.result.kind = "frame"
          /\ last.frame.frame_length = 240
          /\ last.frame.data = inbox.payload
          /\ last.frame.loss = inbox.loss
          /\ last.frame.timestamp = inbox.timestamp
          /\ last.frame.stream_id = inbox.stream_id
          /\ last.frame.ctx = inbox.ctx
          /\ DOMAIN last.frame = DOMAIN NoFrame
    /\ (PullReturned /\ last.result.kind = "frame") =>
          /\ last.depacketizer.pending # NoFrame
          /\ depacketizer.pending = NoFrame
    /\ (PullReturned /\ last.depacketizer.pending = NoFrame) =>
          /\ last.result.kind = "none"
          /\ last.frame = NoFrame
          /\ depacketizer.pending = NoFrame

\* C14 witness: the frame of a 20-byte packet that came after a loss of one
\* packet and after an earlier frame is pulled, with that loss.
C14_Witness ==
    /\ PullReturned /\ last.result.kind = "frame"
    /\ last.hist.frame_ts # None64
    /\ inbox.loss = 1
    /\ last.frame.loss = 1
    /\ last.frame.data = G20

\* The payload has one of the three G.723 frame sizes and the low two bits
\* of its first byte are those of that size.
G723Frame(p) ==
    \/ Len(p) = 24 /\ p[1] % 4 = 0
    \/ Len(p) = 20 /\ p[1] % 4 = 1
    \/ Len(p) = 4 /\ p[1] % 4 = 2

\* C15: G.723 push accepts a packet exactly when (payload length, low two
\* bits of payload byte 0) is (24, 0b00), (20, 0b01) or (4, 0b10); every
\* other packet is rejected with "Invalid G.723 packet" and nothing is stored
\* (push called, as its assertion demands, with no frame pending).
C15_PushAcceptsFrameSizes ==
    (PushReturned /\ last.depacketizer.pending = NoFrame) =>
        /\ last.result.kind = "ok" <=> G723Frame(last.result.pkt.payload)
        /\ ~G723Frame(last.result.pkt.payload) =>
              /\ last.result.kind = "err"
              /\ last.result.description = "Invalid G.723 packet"
              /\ depacketizer = last.depacketizer

\* C15 witness: a 24-byte payload whose first byte has low bits 0b11 is
\* rejected.
C15_Witness ==
    /\ PushReturned
    /\ Len(last.result.pkt.payload) = 24
    /\ last.result.pkt.payload[1] = 3
    /\ last.result.kind = "err"
    /\ last.result.description = "Invalid G.723 packet"

NewReturned == last.op = "new"

ParametersReturned == last.op = "parameters"

\* The error of Depacketizer::new for a pair it has no arm for.
NoDepacketizerFor(media, encoding_name) ==
    "no depacketizer for media/encoding_name " \o media \o "/" \o encoding_name

\* C16: constructing a G.723 depacketizer succeeds exactly when clock_rate is
\* 8000; ("audio", "g723") with another clock rate fails with "Expected clock
\* rate of 8000 for G.723, got ..." and not with "no depacketizer ..."; and
\* parameters() of a constructed G.723 depacketizer reports clock rate 8000,
\* frame length 240 and empty extra data, before and after any packet.
C16_G723ClockRate ==
    /\ (NewReturned /\ last.media = "audio" /\ last.encoding_name = "g723") =>
          /\ last.result.kind = "ok" <=> last.clock_rate = 8000
          /\ last.result.kind = "ok" =>
                depacketizer = [variant |-> "G723", inner |-> [pending |-> NoFrame]]
          /\ last.clock_rate # 8000 =>
                /\ last.result.kind = "err"
                /\ last.result.description =
                      "Expected clock rate of 8000 for G.723, got "
                      \o ToString(last.clock_rate)
                /\ last.result.description # NoDepacketizerFor("audio", "g723")
                /\ depacketizer = NoDepacketizer
    /\ depacketizer.variant = "G723" =>
          /\ G723Parameters(depacketizer.inner).clock_rate = 8000
          /\ G723Parameters(depacketizer.inner).frame_length = 240
          /\ G723Parameters(depacketizer.inner).extra_data = <<>>
    /\ ParametersReturned =>
          /\ last.parameters.kind = "Audio"
          /\ last.parameters.clock_rate = 8000
          /\ last.parameters.frame_length = 240
          /\ last.parameters.extra_data = <<>>

\* C16 witness: parameters() is called while a frame is pending, after an
\* earlier packet's frame has been pulled, and reports clock rate 8000.
C16_Witness ==
    /\ ParametersReturned
    /\ last.depacketizer.inner.pending # NoFrame
    /\ last.hist.frame_ts # None64
    /\ last.parameters.clock_rate = 8000

\* The arms of Depacketizer::new: media, encoding name, variant and the
\* variant's sample size or compression type.
KnownPairs ==
    { <<"video", "h264", "H264", None>>,
      <<"audio", "mpeg4-generic", "Aac", None>>,
      <<"audio", "g726-16", "SimpleAudio", 2>>,
      <<"audio", "g726-24", "SimpleAudio", 3>>,
      <<"audio", "dvi4", "SimpleAudio", 4>>,
      <<"audio", "g726-32", "SimpleAudio", 4>>,
      <<"audio", "g726-40", "SimpleAudio", 5>>,
      <<"audio", "pcma", "SimpleAudio", 8>>,
      <<"audio", "pcmu", "SimpleAudio", 8>>,
      <<"audio", "u8", "SimpleAudio", 8>>,
      <<"audio", "g722", "SimpleAudio", 8>>,
      <<"audio", "l16", "SimpleAudio", 16>>,
      <<"audio", "g723", "G723", None>>,
      <<"application", "vnd.onvif.metadata", "Onvif", "Uncompressed">>,
      <<"application", "vnd.onvif.metadata.gzip", "Onvif", "GzipCompressed">>,
      <<"application", "vnd.onvif.metadata.exi.onvif", "Onvif", "ExiDefault">>,
      <<"application", "vnd.onvif.metadata.exi.ext", "Onvif", "ExiInBand">> }

\* C17: Depacketizer::new selects the variant from the exact pair (media,
\* encoding_name): H264, Aac, SimpleAudio with 2, 3, 4, 5, 8 or 16 bits per
\* sample, G723, or Onvif with the name's compression type; a listed pair can
\* fail only in the constructor of H264, Aac or G723; every other pair fails
\* with "no depacketizer for media/encoding_name <media>/<encoding_name>".
C17_VariantFromExactPair ==
    NewReturned =>
        /\ \A k \in KnownPairs :
              (last.media = k[1] /\ last.encoding_name = k[2]) =>
                  /\ last.result.kind = "ok" =>
                        /\ depacketizer.variant = k[3]
                        /\ k[3] = "SimpleAudio" =>
                              /\ depacketizer.inner.bits_per_sample = k[4]
                              /\ depacketizer.inner.clock_rate = last.clock_rate
                        /\ k[3] = "Onvif" => depacketizer.inner.compression_type = k[4]
                  /\ last.result.kind # "ok" =>
                        /\ last.result.kind = "err"
                        /\ k[3] \in {"H264", "Aac", "G723"}
                        /\ k[3] = "G723" =>
                              last.result.description
                                  # NoDepacketizerFor(last.media, last.encoding_name)
        /\ (~ \E k \in KnownPairs : last.media = k[1] /\ last.encoding_name = k[2]) =>
              /\ last.result.kind = "err"
              /\ last.result.description
                    = NoDepacketizerFor(last.media, last.encoding_name)
              /\ depacketizer = NoDepacketizer

\* C17 witness: audio with the encoding name "G723.1" has no depacketizer.
C17_Witness ==
    /\ NewReturned
    /\ last.media = "audio" /\ last.encoding_name = "G723.1"
    /\ last.result.kind = "err"
    /\ last.result.description = "no depacketizer for media/encoding_name audio/G723.1"

\* C18: every Packet rtp emits has a payload of fewer than 65 535 (u16::MAX)
\* bytes, whatever buffer rtp is given.
C18_PayloadBelowU16Max ==
    Emitted => Len(last.result.pkt.payload) < 65535

\* The bytes of an RTP packet after the 12-byte header, the CSRCs and the
\* header extension, and before the padding.
PayloadSlice(d) ==
    LET cc == d[1] % 16
        x == (d[1] \div 16) % 2
        p == (d[1] \div 32) % 2
        csrcs == 12 + 4 * cc
        start == csrcs + (IF x = 1
                          THEN 4 + 4 * (d[csrcs + 3] * 256 + d[csrcs + 4])
                          ELSE 0)
        end == Len(d) - (IF p = 1 THEN d[Len(d)] ELSE 0)
    IN  SubSeq(d, start + 1, end)

EmptyPayload ==
    /\ last.result.kind = "err"
    /\ last.result.error = "RtpPacketError"
    /\ last.result.description = "empty payload"

\* The last packet passed the SSRC check, the sequence check and the timeline.
LastPassedChecks ==
    /\ LastParsed
    /\ ~LastSpurious
    /\ last.checker.next_seq # None => LastGap <= 32768
    /\ LastAdvance.ok

\* C19 as stated: rtp never emits a Packet with an empty payload, the emitted
\* payload is exactly the payload sub-slice of the buffer, and every
\* well-formed packet whose payload is empty fails with "empty payload".
C19_EmptyPayloadAlwaysFails ==
    /\ Emitted =>
          /\ last.result.pkt.payload # <<>>
          /\ last.result.pkt.payload = PayloadSlice(LastData)
    /\ (LastParsed /\ PayloadSlice(LastData) = <<>>) => EmptyPayload

\* C19, amended: rtp never emits a Packet with an empty payload, the emitted
\* payload is exactly the payload sub-slice of the buffer, and a well-formed
\* packet whose payload is empty and that passed the SSRC check, the sequence
\* check and the timeline fails with RtpPacketError "empty payload".
C19_EmptyPayloadFailsWhenReached ==
    /\ Emitted =>
          /\ last.result.pkt.payload # <<>>
          /\ last.result.pkt.payload = PayloadSlice(LastData)
    /\ (LastPassedChecks /\ PayloadSlice(LastData) = <<>>) => EmptyPayload
    /\ EmptyPayload => (LastPassedChecks /\ PayloadSlice(LastData) = <<>>)

\* C19 witness: a packet with an empty header extension, three bytes of
\* padding and nothing between them fails with "empty payload".
C19_Witness ==
    /\ RtpReturned /\ EmptyPayload
    /\ ExtensionFlag(LastData) /\ PaddingFlag(LastData)
    /\ Len(LastData) = 19

\* The last packet passed the SSRC check and the sequence check.
LastReachedTimeline ==
    /\ LastParsed
    /\ ~LastSpurious
    /\ last.checker.next_seq # None => LastGap <= 32768

\* C20: when Timeline::advance_to rejects the packet's timestamp, rtp fails
\* with RtpPacketError carrying the timeline's description, emits no Packet
\* and leaves ssrc and next_seq as before; advance_to is called only for
\* packets that passed the SSRC check and the sequence check.
C20_TimelineRejectionLeavesChecker ==
    RtpReturned =>
        /\ (LastReachedTimeline /\ ~LastAdvance.ok) =>
              /\ last.result = Err("RtpPacketError", LastAdvance.description)
              /\ last.result.pkt = NoPacket
              /\ checker.ssrc = last.checker.ssrc
              /\ checker.next_seq = last.checker.next_seq
              /\ timeline = last.timeline
        /\ ~LastReachedTimeline =>
              /\ timeline = last.timeline
              /\ last.result.description # "timestamp jump"

\* C20 witness: a checker with an SSRC and an expected sequence number gets
\* the expected packet with a timestamp the timeline rejects.
C20_Witness ==
    /\ RtpReturned
    /\ LastReachedTimeline /\ ~LastAdvance.ok
    /\ last.checker.ssrc = LastSsrc
    /\ last.checker.next_seq = LastSeq
    /\ last.result.description = "timestamp jump"
    /\ checker = last.checker

\* The checker has an SSRC and the step keeps it.
SsrcKept == checker.ssrc # None32 => checker'.ssrc = checker.ssrc

\* C21: once the checker's SSRC is latched it never changes, whatever rtp
\* and rtcp calls follow (accepted, dropped or failing, with either value of
\* ignore_spurious_data), and every Packet emitted afterwards carries it.
C21_LatchedSsrcNeverChanges ==
    /\ [][SsrcKept]_vars
    /\ [](((RtpReturned \/ RtcpReturned) /\ last.checker.ssrc # None32) =>
             /\ checker.ssrc = last.checker.ssrc
             /\ Emitted => last.result.pkt.ssrc = last.checker.ssrc)

\* C21 witness: a checker with an SSRC has been given a sender report of
\* another SSRC and still has its own.
C21_Witness ==
    /\ RtcpReturned
    /\ last.checker.ssrc = <<258, 772>>
    /\ Len(last.data) = 1
    /\ last.data[1].type = "SenderReport"
    /\ last.data[1].ssrc = <<65535, 65535>>
    /\ checker.ssrc = <<258, 772>>

\* C22: an rtp call that emits no Packet (an error, "empty payload" and a
\* malformed header among them, or a silent drop) leaves the checker's ssrc,
\* its next_seq and the Timeline as they were before the call.
C22_NoPacketNoChange ==
    (RtpReturned /\ ~Emitted) =>
        /\ checker.ssrc = last.checker.ssrc
        /\ checker.next_seq = last.checker.next_seq
        /\ timeline = last.timeline

\* What rtp returns for data from the given checker and timeline.
RtpResultFrom(self, tl, data) == Rtp(self, tl, opts, CtxOf(data), opts, data).result

\* C23: rtcp never changes the checker's next expected sequence number, and
\* once an RTP packet has been accepted an rtcp call changes neither whether
\* the next rtp call is accepted nor the loss it reports.
C23_RtcpLeavesSequence ==
    RtcpReturned =>
        /\ checker.next_seq = last.checker.next_seq
        /\ last.hist.pkt_ts # None64 =>
              \A data \in PlainInputs :
                  LET with == RtpResultFrom(checker, timeline, data)
                      without == RtpResultFrom(last.checker, last.timeline, data)
                  IN  /\ with.kind = without.kind
                      /\ with.error = without.error
                      /\ with.description = without.description
                      /\ with.pkt.loss = without.pkt.loss

\* C23 witness: after an accepted RTP packet, rtcp has returned a sender
\* report and the next RTP packet is still accepted with a loss of 1.
C23_Witness ==
    /\ RtcpReturned
    /\ last.hist.pkt_ts # None64
    /\ last.result.kind = "sr"
    /\ last.checker.next_seq = 65535
    /\ checker.next_seq = 65535
    /\ \E data \in PlainInputs :
          /\ RtpResultFrom(checker, timeline, data).kind = "packet"
          /\ RtpResultFrom(checker, timeline, data).pkt.loss = 1

\* rtcp returned a sender report to a checker that had no SSRC.
SrLatched ==
    /\ RtcpReturned
    /\ last.checker.ssrc = None32
    /\ last.result.kind = "sr"

\* An RTP packet whose header parses, after the framing hack.
WellFormed(data) == RtpReaderOk(Sanitize(data))

SsrcOf(data) == U32At(Sanitize(data), 9)

\* C24: a sender report accepted while the checker has no SSRC latches the
\* report's SSRC. An RTP packet of another SSRC that comes next, be it the
\* first RTP packet of the stream, gets "Wrong ssrc", or Ok(None) under
\* ignore_spurious_data; the sequence number stays unconstrained, so a first
\* RTP packet of the report's SSRC is taken with loss 0.
C24_SenderReportLatchesSsrc ==
    SrLatched =>
        /\ last.data[1].type = "SenderReport"
        /\ checker.ssrc = last.data[1].ssrc
        /\ checker.next_seq = last.checker.next_seq
        /\ \A data \in RtpInputs :
              (WellFormed(data) /\ SsrcOf(data) # last.data[1].ssrc) =>
                  /\ RtpResultFrom(checker, timeline, data)
                        = IF opts.ignore_spurious_data
                          THEN OkNone
                          ELSE Err("RtpPacketError", "Wrong ssrc")
                  /\ RtpResultFrom(last.checker, last.timeline, data).description
                        # "Wrong ssrc"
        /\ \A data \in PlainInputs :
              (SsrcOf(data) = last.data[1].ssrc /\ checker.next_seq = None) =>
                  /\ RtpResultFrom(checker, timeline, data).kind = "packet"
                  /\ RtpResultFrom(checker, timeline, data).pkt.loss = 0

\* C24 witness: a checker from new(None, None) that does not ignore spurious
\* data has taken a sender report of SSRC 0x01020304 before any RTP packet.
C24_Witness ==
    /\ SrLatched
    /\ last.checker.next_seq = None
    /\ last.hist.pkt_ts = None64
    /\ ~opts.ignore_spurious_data
    /\ checker = [ssrc |-> <<258, 772>>, next_seq |-> None]
    /\ \E data \in PlainInputs :
          /\ SsrcOf(data) = <<65535, 65535>>
          /\ RtpResultFrom(checker, timeline, data) = Err("RtpPacketError", "Wrong ssrc")

\* The last push was refused by validate.
PushRejected == PushReturned /\ last.result.kind = "err"

\* C25: a G.723 push that fails validation leaves the depacketizer as it
\* was: the pending slot stays empty, a pull that follows returns none, and a
\* valid push that follows with no pull in between succeeds (the assertion
\* holds) and yields the valid packet's frame and nothing else.
C25_RejectedPushLeavesDepacketizer ==
    PushRejected =>
        /\ depacketizer = last.depacketizer
        /\ depacketizer.pending = NoFrame
        /\ Pull(depacketizer).item = NoFrame
        /\ Pull(depacketizer).depacketizer = depacketizer
        /\ \A pkt \in CodecPackets :
              G723Frame(pkt.payload) =>
                  LET pushed == Push(depacketizer, pkt)
                      first == Pull(pushed.depacketizer)
                      second == Pull(first.depacketizer)
                  IN  /\ pushed.result = "ok"
                      /\ first.item.data = pkt.payload
                      /\ first.item.loss = pkt.loss
                      /\ first.item.timestamp = pkt.timestamp
                      /\ first.item.ctx = pkt.ctx
                      /\ first.item.frame_length = 240
                      /\ second.item = NoFrame

\* C25 witness: the push of a 4-byte packet with the header bits of a
\* 24-byte frame has been refused after an earlier frame was pulled.
C25_Witness ==
    /\ PushRejected
    /\ last.result.pkt.payload = BadG4
    /\ last.hist.frame_ts # None64
    /\ depacketizer.pending = NoFrame

RtcpFailed == RtcpReturned /\ last.result.kind = "err"

\* C26: an rtcp call that returns an error leaves the checker's ssrc as it
\* was before the call; a compound packet whose leading sender report is
\* valid and whose later part fails to parse, or holds a second sender
\* report, does not latch the report's SSRC.
C26_FailedRtcpLeavesSsrc ==
    RtcpFailed => checker.ssrc = last.checker.ssrc

====
